---- MODULE Spec2Model ----
(***************************************************************************)
(* Model of the three analytics transforms of src/ai:                      *)
(*   feature_engineering.py  (win-rate trend, tempo, comeback, win rate)   *)
(*   rag_store.py            (bag-of-words retrieval over MOCK_HISTORY)    *)
(*   strategy_simulator.py   (Monte Carlo win probability)                 *)
(*                                                                         *)
(* Python strings are sequences of one-character strings, so that          *)
(* str.split, str.lower and int() are modelled by what they do.            *)
(* Python floats are modelled by exact rationals <<num, den>> (den > 0);   *)
(* values of the simulator are integers in thousandths.                    *)
(***************************************************************************)
EXTENDS Integers, Sequences, FiniteSets, TLC

VARIABLES
    pc,            \* "start" before the call, "done" after it, "idle" in the library view
    component,     \* which transform runs: "feature", "rag", "sim"
    stdin,         \* the JSON document the call reads (its argument)
    response,      \* the JSON document the call prints (its return value)
    exit_status,   \* 0, or 1 after sys.exit(1)
    MOCK_HISTORY,  \* the module-level corpus of rag_store.py
    base_prob,     \* simulate_match's local after the clamp, in thousandths
    samples,       \* how many times random.random() was drawn
    numSimulations, \* the sample count the caller asks for
    calls          \* how many calls this process has completed

vars == <<pc, component, stdin, response, exit_status, MOCK_HISTORY,
          base_prob, samples, numSimulations, calls>>

----------------------------------------------------------------------------
(* Bounds of the model *)

\* longest match list drawn from the full record set
MaxLenFull == 2
\* longest match list drawn from the small record pool (exercises the rolling window)
MaxLenPool == 4
\* longest query string (characters) drawn from the query alphabet
MaxQueryLen == 3
\* top_k ranges over -MaxTopK .. MaxTopK
MaxTopK == 4
\* longest match list of the call sequences of SpecCore
MaxLenCore == 2
\* most calls one process makes in SpecCore
MaxCalls == 3

----------------------------------------------------------------------------
(* Python str helpers *)

Digits == <<"0", "1", "2", "3", "4", "5", "6", "7", "8", "9">>

IsDigit(c) == \E i \in 1..10 : Digits[i] = c

DigitVal(c) == (CHOOSE i \in 1..10 : Digits[i] = c) - 1

\* str.isspace for the characters of the model
IsSpace(c) == c = " "

\* whether sep occurs in s at position i (1-based)
MatchAt(s, sep, i) ==
    /\ i + Len(sep) - 1 <= Len(s)
    /\ \A j \in 1..Len(sep) : s[i + j - 1] = sep[j]

\* str.split(sep): non-overlapping occurrences, left to right
RECURSIVE SplitSep(_, _)
SplitSep(s, sep) ==
    LET hits == {i \in 1..Len(s) : MatchAt(s, sep, i)}
    IN  IF hits = {} THEN <<s>>
        ELSE LET i == CHOOSE h \in hits : \A g \in hits : h <= g
             IN  <<SubSeq(s, 1, i - 1)>> \o
                 SplitSep(SubSeq(s, i + Len(sep), Len(s)), sep)

\* str.strip() as int() applies it
RECURSIVE StripLeft(_)
StripLeft(s) == IF s # <<>> /\ IsSpace(Head(s)) THEN StripLeft(Tail(s)) ELSE s

RECURSIVE StripRight(_)
StripRight(s) ==
    IF s # <<>> /\ IsSpace(s[Len(s)]) THEN StripRight(SubSeq(s, 1, Len(s) - 1)) ELSE s

RECURSIVE DigitsValue(_, _)
DigitsValue(s, acc) ==
    IF s = <<>> THEN acc ELSE DigitsValue(Tail(s), 10 * acc + DigitVal(Head(s)))

AllDigits(s) == s # <<>> /\ \A i \in 1..Len(s) : IsDigit(s[i])

\* int(s): surrounding whitespace, an optional sign, then digits; ok = FALSE is ValueError
ParseInt(s) ==
    LET t == StripRight(StripLeft(s))
        signed == t # <<>> /\ Head(t) \in {"-", "+"}
        body == IF signed THEN Tail(t) ELSE t
    IN  IF ~AllDigits(body) THEN [ok |-> FALSE, v |-> 0]
        ELSE [ok |-> TRUE,
              v |-> IF signed /\ Head(t) = "-" THEN 0 - DigitsValue(body, 0)
                    ELSE DigitsValue(body, 0)]

----------------------------------------------------------------------------
(* Exact rationals standing for Python floats *)

Rat(n, d) == <<n, d>>

RatLeq(a, b) == a[1] * b[2] <= b[1] * a[2]

RatEq(a, b) == a[1] * b[2] = b[1] * a[2]

\* np.clip(x, lo, hi) with integer lo <= hi
Clip(x, lo, hi) ==
    IF x[1] < lo * x[2] THEN Rat(lo, 1)
    ELSE IF x[1] > hi * x[2] THEN Rat(hi, 1)
    ELSE x

----------------------------------------------------------------------------
(* dict helpers: a dict is a function on the set of its keys *)

\* dict.get(k, default)
Get(d, k, default) == IF k \in DOMAIN d THEN d[k] ELSE default

RECURSIVE SumSeq(_)
SumSeq(s) == IF s = <<>> THEN 0 ELSE Head(s) + SumSeq(Tail(s))

Min(a, b) == IF a <= b THEN a ELSE b

Max(a, b) == IF a >= b THEN a ELSE b

----------------------------------------------------------------------------
(* JSON values *)

WIN == <<"w", "i", "n">>

LOSS == <<"l", "o", "s", "s">>

\* a JSON string value / a JSON value that is not a string (a number)
Str(s) == [isstr |-> TRUE, s |-> s]

NotStr == [isstr |-> FALSE, s |-> <<>>]

\* a match record that is a JSON object with the given keys
MatchDict(keys, r, sc) ==
    [isdict |-> TRUE, d |-> [k \in keys |-> IF k = "result" THEN r ELSE sc]]

\* a match record that is not a JSON object (a number)
NonDict == [isdict |-> FALSE, d |-> [k \in {} |-> NotStr]]

\* a JSON document: kind is "unparsable" (json.loads raises), "array", "string",
\* "number", "null" or "object"; obj is the dict of an object
Doc(kind, obj) == [kind |-> kind, obj |-> obj]

NoKeys == [k \in {} |-> 0]

NonObjectKinds == {"unparsable", "array", "string", "number", "null"}

\* nothing printed yet
NoOutput == [nothing |-> TRUE]

\* print(json.dumps({'error': str(e)})); the message text is not modelled
ErrorResponse == [error |-> "exception"]

IsError(r) == "error" \in DOMAIN r

----------------------------------------------------------------------------
(* feature_engineering.py *)

\* the default of match.get('score', '0 - 0')
DefaultScore == Str(<<"0", " ", "-", " ", "0">>)

ScoreSep == <<" ", "-", " ">>

\* lines 27-29 and 44-47: score = match.get('score', '0 - 0'); parts = score.split(' - ');
\* int(parts[0]), int(parts[1]).  ok = FALSE stands for any exception the bare except
\* swallows: AttributeError (match or score without the method), IndexError, ValueError
ParseScore(match) ==
    LET score == Get(match.d, "score", DefaultScore)
        parts == SplitSep(score.s, ScoreSep)
        a == ParseInt(parts[1])
        b == ParseInt(parts[2])
    IN  IF ~match.isdict \/ ~score.isstr \/ Len(parts) < 2 THEN [ok |-> FALSE, a |-> 0, b |-> 0]
        ELSE IF ~a.ok \/ ~b.ok THEN [ok |-> FALSE, a |-> 0, b |-> 0]
        ELSE [ok |-> TRUE, a |-> a.v, b |-> b.v]

\* the lambda of line 15 applied to the 'result' column (NaN where the key is absent)
WinIndicator(match) == IF Get(match.d, "result", <<>>) = WIN THEN 1 ELSE 0

\* calculate_win_rate_trend; raised = TRUE when pandas raises: DataFrame() on a list
\* holding a non-dict, or KeyError 'result' when no record has the key
calculate_win_rate_trend(matches) ==
    LET n == Len(matches)
        win == [i \in 1..n |-> WinIndicator(matches[i])]
        k == Min(3, n)
        rolling_last == SumSeq(SubSeq(win, n - k + 1, n))
        total == SumSeq(win)
    IN  IF n < 2 THEN [raised |-> FALSE, value |-> Rat(0, 1)]
        ELSE IF \E i \in 1..n : ~matches[i].isdict
            THEN [raised |-> TRUE, value |-> Rat(0, 1)]
        ELSE IF \A i \in 1..n : "result" \notin DOMAIN matches[i].d
            THEN [raised |-> TRUE, value |-> Rat(0, 1)]
        ELSE [raised |-> FALSE,
              value |-> Clip(Rat(rolling_last * n - total * k, k * n), -1, 1)]

\* the list tempo_scores, each entry 1 - total_rounds/30 kept as its numerator over 30
RECURSIVE TempoScores(_)
TempoScores(matches) ==
    IF matches = <<>> THEN <<>>
    ELSE LET p == ParseScore(Head(matches))
             total_rounds == p.a + p.b
         IN  (IF p.ok /\ total_rounds > 0 THEN <<30 - total_rounds>> ELSE <<>>)
             \o TempoScores(Tail(matches))

\* calculate_tempo_score without np.clip
calculate_tempo_score_NoClip(matches) ==
    LET tempo_scores == TempoScores(matches)
    IN  IF matches = <<>> \/ tempo_scores = <<>> THEN Rat(1, 2)
        ELSE Rat(SumSeq(tempo_scores), 30 * Len(tempo_scores))

calculate_tempo_score(matches) ==
    LET tempo_scores == TempoScores(matches)
    IN  IF matches = <<>> THEN Rat(1, 2)
        ELSE IF tempo_scores = <<>> THEN Clip(Rat(1, 2), 0, 1)
        ELSE Clip(Rat(SumSeq(tempo_scores), 30 * Len(tempo_scores)), 0, 1)

\* the loop of lines 42-54: <<comebacks, total>>
RECURSIVE ComebackCounts(_)
ComebackCounts(matches) ==
    IF matches = <<>> THEN <<0, 0>>
    ELSE LET match == Head(matches)
             p == ParseScore(match)
             won == p.a
             lost == p.b
             result == Get(match.d, "result", <<>>)
             near_loss == p.ok /\ result = LOSS /\ lost - won <= 2
             big_win == p.ok /\ result = WIN /\ won - lost >= 4
             rest == ComebackCounts(Tail(matches))
         IN  <<rest[1] + (IF big_win THEN 1 ELSE 0),
               rest[2] + (IF near_loss THEN 1 ELSE 0) + (IF big_win THEN 1 ELSE 0)>>

calculate_comeback_probability(matches) ==
    LET c == ComebackCounts(matches)
    IN  IF matches = <<>> THEN Rat(1, 2)
        ELSE IF c[2] > 0 THEN Rat(c[1], c[2])
        ELSE Rat(1, 2)

\* lines 69-73; the caller has checked that every m has .get
WinRate(matches) ==
    IF matches # <<>>
    THEN Rat(SumSeq([i \in 1..Len(matches) |-> WinIndicator(matches[i])]), Len(matches))
    ELSE Rat(1, 2)

\* lines 63-73 of main(): the result dict for a list of matches
extract(matches) ==
    LET trend == calculate_win_rate_trend(matches)
    IN  IF trend.raised THEN ErrorResponse
        ELSE IF \E i \in 1..Len(matches) : ~matches[i].isdict THEN ErrorResponse
        ELSE [win_rate_trend |-> trend.value,
              tempo_score |-> calculate_tempo_score(matches),
              comeback_probability |-> calculate_comeback_probability(matches),
              win_rate |-> WinRate(matches)]

\* feature_main reading input_data['matches'] without a default
feature_main_RequireMatches(doc) ==
    IF doc.kind # "object" \/ "matches" \notin DOMAIN doc.obj THEN ErrorResponse
    ELSE extract(doc.obj["matches"])

\* main() of feature_engineering.py on the document read from stdin: the printed response
feature_main(doc) ==
    IF doc.kind # "object" THEN ErrorResponse
    ELSE extract(Get(doc.obj, "matches", <<>>))

----------------------------------------------------------------------------
(* rag_store.py *)

UpperCase == <<"A", "B", "C", "D", "E", "F", "G", "H", "I", "J", "K", "L", "M",
               "N", "O", "P", "Q", "R", "S", "T", "U", "V", "W", "X", "Y", "Z">>

LowerCase == <<"a", "b", "c", "d", "e", "f", "g", "h", "i", "j", "k", "l", "m",
               "n", "o", "p", "q", "r", "s", "t", "u", "v", "w", "x", "y", "z">>

LowerChar(c) ==
    IF \E i \in 1..Len(UpperCase) : UpperCase[i] = c
    THEN LowerCase[CHOOSE i \in 1..Len(UpperCase) : UpperCase[i] = c]
    ELSE c

\* str.lower()
Lower(s) == [i \in 1..Len(s) |-> LowerChar(s[i])]

\* str.split(): runs of whitespace separate the words, no empty words
RECURSIVE SplitWords(_, _)
SplitWords(s, cur) ==
    IF s = <<>> THEN (IF cur = <<>> THEN <<>> ELSE <<cur>>)
    ELSE IF IsSpace(Head(s))
        THEN (IF cur = <<>> THEN <<>> ELSE <<cur>>) \o SplitWords(Tail(s), <<>>)
        ELSE SplitWords(Tail(s), Append(cur, Head(s)))

\* the keys of word_counts in insertion (first-occurrence) order
RECURSIVE FirstOccurrences(_, _)
FirstOccurrences(words, seen) ==
    IF words = <<>> THEN seen
    ELSE IF \E i \in 1..Len(seen) : seen[i] = Head(words)
        THEN FirstOccurrences(Tail(words), seen)
        ELSE FirstOccurrences(Tail(words), Append(seen, Head(words)))

\* text_to_vector: list(word_counts.values())
text_to_vector(text) ==
    LET words == SplitWords(Lower(text), <<>>)
        keys == FirstOccurrences(words, <<>>)
    IN  [i \in 1..Len(keys) |-> Cardinality({j \in 1..Len(words) : words[j] = keys[i]})]

\* cosine_similarity: the float dot / (norm_a * norm_b) is kept exactly as the pair
\* <<dot, norm_a^2 * norm_b^2>>; the value 0 of the else branch is <<0, 1>>
cosine_similarity(a, b) ==
    LET n == Min(Len(a), Len(b))
        dot == SumSeq([i \in 1..n |-> a[i] * b[i]])
        norm_a2 == SumSeq([i \in 1..Len(a) |-> a[i] * a[i]])
        norm_b2 == SumSeq([i \in 1..Len(b) |-> b[i] * b[i]])
    IN  IF norm_a2 * norm_b2 > 0 THEN <<dot, norm_a2 * norm_b2>> ELSE <<0, 1>>

\* s >= t and s = t for two similarity values (dot products are never negative)
SimGeq(s, t) == s[1] * s[1] * t[2] >= t[1] * t[1] * s[2]

SimEq(s, t) == s[1] * s[1] * t[2] = t[1] * t[1] * s[2]

\* whether 1000 * sim >= k - 1/2
AtLeastHalfBelow(sim, k) ==
    k = 0 \/ (2 * k - 1) * (2 * k - 1) * sim[2] <= 4000000 * sim[1] * sim[1]

RECURSIVE NearestThousandth(_, _, _)
NearestThousandth(sim, lo, hi) ==
    IF lo = hi THEN lo
    ELSE LET mid == (lo + hi + 1) \div 2
         IN  IF AtLeastHalfBelow(sim, mid) THEN NearestThousandth(sim, mid, hi)
             ELSE NearestThousandth(sim, lo, mid - 1)

\* round(sim, 3) in thousandths; an exact half rounds to the even neighbour
Round3(sim) ==
    LET k == NearestThousandth(sim, 0, 1001)
        tie == k > 0 /\ (2 * k - 1) * (2 * k - 1) * sim[2] = 4000000 * sim[1] * sim[1]
    IN  IF tie /\ k % 2 = 1 THEN k - 1 ELSE k

EmptyStr == <<>>

\* the f-string of line 40
MatchText(match) ==
    Get(match, "teamName", EmptyStr) \o <<" ">> \o Get(match, "result", EmptyStr)
        \o <<" ">> \o Get(match, "opponent", EmptyStr)

\* lines 37-43: one (sim, match) tuple per record; idx is the identity of the dict
\* object the tuple refers to (its position in history)
Scored(query, history) ==
    LET query_vec == text_to_vector(query)
    IN  [i \in 1..Len(history) |->
            [sim |-> cosine_similarity(query_vec, text_to_vector(MatchText(history[i]))),
             idx |-> i]]

\* InsertSorted for a sort that is not stable: an entry goes before its equals
RECURSIVE InsertSorted_TiesReversed(_, _)
InsertSorted_TiesReversed(sorted, e) ==
    IF sorted = <<>> THEN <<e>>
    ELSE IF SimGeq(e.sim, Head(sorted).sim) THEN <<e>> \o sorted
    ELSE <<Head(sorted)>> \o InsertSorted_TiesReversed(Tail(sorted), e)

\* list.sort(key=lambda x: -x[0]) is stable: an entry goes after every entry whose
\* similarity is at least its own
RECURSIVE InsertSorted(_, _)
InsertSorted(sorted, e) ==
    IF sorted = <<>> THEN <<e>>
    ELSE IF SimGeq(Head(sorted).sim, e.sim) THEN <<Head(sorted)>> \o InsertSorted(Tail(sorted), e)
    ELSE <<e>> \o sorted

RECURSIVE SortScored(_, _)
SortScored(scored, acc) ==
    IF scored = <<>> THEN acc
    ELSE SortScored(Tail(scored), InsertSorted(acc, Head(scored)))

\* SliceTo with a negative top_k read as "no results"
SliceTo_NegativeAsEmpty(s, top_k) == SubSeq(s, 1, Max(0, Min(top_k, Len(s))))

\* the slice scored[:top_k]
SliceTo(s, top_k) ==
    IF top_k >= 0 THEN SubSeq(s, 1, Min(top_k, Len(s)))
    ELSE SubSeq(s, 1, Max(0, Len(s) + top_k))

\* AttachCopy without the copy: similarity and rank are written into the record itself
AttachInPlace(match, sim, rank) ==
    LET written == [k \in DOMAIN match \cup {"similarity", "rank"} |->
                        IF k = "similarity" THEN Round3(sim)
                        ELSE IF k = "rank" THEN rank
                        ELSE match[k]]
    IN  [result |-> written, match |-> written]

\* lines 49-51: result = match.copy(); result['similarity'] = ...; result['rank'] = ...
\* result is the new dict, match the record of history after the three statements
AttachCopy(match, sim, rank) ==
    [result |-> [k \in DOMAIN match \cup {"similarity", "rank"} |->
                    IF k = "similarity" THEN Round3(sim)
                    ELSE IF k = "rank" THEN rank
                    ELSE match[k]],
     match |-> match]

\* find_similar_matches: the returned list and the history list as the call leaves it
find_similar_matches(query, history, top_k) ==
    LET scored == SortScored(Scored(query, history), <<>>)
        kept == SliceTo(scored, top_k)
        done == [i \in 1..Len(kept) |-> AttachCopy(history[kept[i].idx], kept[i].sim, i)]
    IN  [results |-> [i \in 1..Len(kept) |-> done[i].result],
         history |-> [j \in 1..Len(history) |->
                        IF \E i \in 1..Len(kept) : kept[i].idx = j
                        THEN done[CHOOSE i \in 1..Len(kept) : kept[i].idx = j].match
                        ELSE history[j]]]

\* the default of input_data.get('top_k', 5)
DefaultTopK == 5

\* main() of rag_store.py: the printed response and MOCK_HISTORY after the call
rag_main(doc, mock_history) ==
    LET query == Get(doc.obj, "query", EmptyStr)
        top_k == Get(doc.obj, "top_k", DefaultTopK)
        found == find_similar_matches(query, mock_history, top_k)
    IN  IF doc.kind # "object"
        THEN [response |-> ErrorResponse, history |-> mock_history]
        ELSE [response |-> [similar_matches |-> found.results], history |-> found.history]

----------------------------------------------------------------------------
(* strategy_simulator.py; feature values are in hundredths, probabilities in thousandths *)

\* the default of features.get(..., 0.5), in hundredths
DefaultFeature == 50

\* num_simulations = 1000
num_simulations == 1000

\* BaseProb with the win-rate weight 0.5 in place of 0.4
BaseProb_WinWeightHalf(features) ==
    LET win_rate == Get(features, "win_rate", DefaultFeature)
        tempo == Get(features, "tempo_score", DefaultFeature)
        comeback == Get(features, "comeback_probability", DefaultFeature)
        raw == 500 + (win_rate - 50) * 5 + (tempo - 50) * 1 + (comeback - 50) * 1
    IN  Max(100, Min(900, raw))

\* lines 13-28: base_prob after the clamp
BaseProb(features) ==
    LET win_rate == Get(features, "win_rate", DefaultFeature)
        tempo == Get(features, "tempo_score", DefaultFeature)
        comeback == Get(features, "comeback_probability", DefaultFeature)
        raw == 500 + (win_rate - 50) * 4 + (tempo - 50) * 1 + (comeback - 50) * 1
    IN  Max(100, Min(900, raw))

\* lines 38-42 for a given count of draws below base_prob: round(wins / num_simulations, 3)
SimResult(wins) == [predicted_win_probability |-> (wins * 1000) \div num_simulations]

----------------------------------------------------------------------------
(* Inputs *)

SeqsUpTo(S, n) == UNION {[1..k -> S] : k \in 0..n}

ScoreStrings ==
    { <<"1", "3", " ", "-", " ", "5">>,
      <<"5", " ", "-", " ", "1", "3">>,
      <<"1", "1", " ", "-", " ", "1", "3">>,
      <<"1", "3", " ", "-", " ", "9">>,
      <<"1", "3", "-", "5">>,
      <<"a", "b", "c">>,
      <<"1", "3", "-">>,
      <<"0", " ", "-", " ", "0">>,
      <<"1", "0", "0", " ", "-", " ", "1", "0", "0">>,
      <<"-", "5", " ", "-", " ", "3">> }

ScoreValues == {NotStr} \cup {Str(s) : s \in ScoreStrings}

FullRecords ==
    {NonDict} \cup
    {MatchDict(keys, r, sc) :
        keys \in SUBSET {"result", "score"}, r \in {WIN, LOSS}, sc \in ScoreValues}

Both == {"result", "score"}

PoolRecords ==
    { MatchDict(Both, WIN, Str(<<"1", "3", " ", "-", " ", "5">>)),
      MatchDict(Both, LOSS, Str(<<"1", "1", " ", "-", " ", "1", "3">>)),
      MatchDict(Both, LOSS, Str(<<"1", "3", " ", "-", " ", "5">>)),
      MatchDict(Both, WIN, Str(<<"1", "3", "-", "5">>)),
      MatchDict(Both, WIN, Str(<<"1", "0", "0", " ", "-", " ", "1", "0", "0">>)) }

MatchLists == SeqsUpTo(FullRecords, MaxLenFull) \cup SeqsUpTo(PoolRecords, MaxLenPool)

ObjectDoc(keys, val) == Doc("object", [k \in keys |-> val[k]])

NonObjectDocs == {Doc(kind, NoKeys) : kind \in NonObjectKinds}

FeatureDocs ==
    NonObjectDocs \cup
    {ObjectDoc(keys, [matches |-> m]) : keys \in SUBSET {"matches"}, m \in MatchLists}

\* MOCK_HISTORY as rag_store.py defines it
MockHistoryInit ==
    << [teamName |-> <<"C", "9">>, result |-> WIN,
        score |-> <<"1", "3", "-", "5">>, opponent |-> <<"T", "1">>],
       [teamName |-> <<"C", "9">>, result |-> LOSS,
        score |-> <<"1", "1", "-", "1", "3">>, opponent |-> <<"G", "2">>],
       [teamName |-> <<"C", "9">>, result |-> WIN,
        score |-> <<"1", "3", "-", "3">>, opponent |-> <<"N", "A", "V", "I">>] >>

\* a corpus whose records give vectors of different shapes, two of them alike:
\* [2,1], [1,1], [3], [], [1,1,1], [1,1]
OtherCorpus ==
    << [teamName |-> <<"C", "9">>, result |-> WIN, opponent |-> <<"c", "9">>],
       [teamName |-> <<"C", "9">>, result |-> WIN],
       [teamName |-> <<"a">>, result |-> <<"a">>, opponent |-> <<"A">>],
       NoKeys,
       [teamName |-> <<"T", "1">>, result |-> LOSS, opponent |-> <<"G", "2">>],
       [teamName |-> <<"G", "2">>, result |-> LOSS] >>

Corpora == {<<>>, MockHistoryInit, OtherCorpus}

QueryChars == {"a", "A", "b", " "}

NamedQueries ==
    { <<"C", "9", " ", "w", "i", "n", " ", "T", "1">>,
      <<"c", "9", " ", "C", "9", " ", " ", "W", "I", "N">> }

Queries == SeqsUpTo(QueryChars, MaxQueryLen) \cup NamedQueries

TopKs == (0 - MaxTopK)..MaxTopK

RagDocs ==
    NonObjectDocs \cup
    {ObjectDoc(keys, [query |-> q, top_k |-> k]) :
        keys \in SUBSET {"query", "top_k"}, q \in Queries, k \in TopKs}

\* the arguments of a direct call find_similar_matches(query, history, top_k)
RetrieveArgs == [query : Queries, history : Corpora, top_k : TopKs]

FeatureKeys == {"win_rate", "tempo_score", "comeback_probability"}

\* feature objects with every field absent or drawn from vals (hundredths)
SimDocsOver(vals) ==
    NonObjectDocs \cup
    {ObjectDoc(keys, [win_rate |-> w, tempo_score |-> t, comeback_probability |-> c]) :
        keys \in SUBSET FeatureKeys, w \in vals, t \in vals, c \in vals}

SimDocs == SimDocsOver({-200, 50, 100, 300})

SimDocsSmall == SimDocsOver({100})

\* the sample counts a caller asks for: StrategySimulator(num_simulations=1000) of
\* strategy_cli.py, and another one
SimRequests == {10, num_simulations}

----------------------------------------------------------------------------
(* The state machine: one process run per transform *)

InitCommon ==
    /\ pc = "start"
    /\ response = NoOutput
    /\ exit_status = 0
    /\ MOCK_HISTORY = MockHistoryInit
    /\ base_prob = 0
    /\ samples = 0
    /\ calls = 0

InitFeature == component = "feature" /\ stdin \in FeatureDocs /\ numSimulations = num_simulations

InitRag == component = "rag" /\ stdin \in RagDocs /\ numSimulations = num_simulations

InitRetrieve ==
    component = "retrieve" /\ stdin \in RetrieveArgs /\ numSimulations = num_simulations

InitSim(docs) == component = "sim" /\ stdin \in docs /\ numSimulations \in SimRequests

Init == InitCommon /\ (InitFeature \/ InitRag \/ InitRetrieve \/ InitSim(SimDocsSmall))

\* feature_engineering.main
FeatureStep ==
    /\ pc = "start" /\ component = "feature"
    /\ response' = feature_main(stdin)
    /\ exit_status' = (IF IsError(response') THEN 1 ELSE 0)
    /\ pc' = "done"
    /\ calls' = calls + 1
    /\ UNCHANGED <<component, stdin, MOCK_HISTORY, base_prob, samples, numSimulations>>

\* rag_store.main
RagStep ==
    /\ pc = "start" /\ component = "rag"
    /\ LET r == rag_main(stdin, MOCK_HISTORY)
       IN  /\ response' = r.response
           /\ MOCK_HISTORY' = r.history
    /\ exit_status' = (IF IsError(response') THEN 1 ELSE 0)
    /\ pc' = "done"
    /\ calls' = calls + 1
    /\ UNCHANGED <<component, stdin, base_prob, samples, numSimulations>>

\* a direct call of find_similar_matches on the caller's own history list
RetrieveStep ==
    /\ pc = "start" /\ component = "retrieve"
    /\ LET f == find_similar_matches(stdin.query, stdin.history, stdin.top_k)
       IN  /\ response' = f.results
           /\ stdin' = [stdin EXCEPT !.history = f.history]
    /\ pc' = "done"
    /\ calls' = calls + 1
    /\ UNCHANGED <<component, exit_status, MOCK_HISTORY, base_prob, samples, numSimulations>>

\* strategy_simulator.main; wins is the number of the num_simulations draws of
\* random.random() that fall below base_prob (base_prob lies strictly inside (0,1),
\* so every count is a possible outcome)
SimStep ==
    /\ pc = "start" /\ component = "sim"
    /\ IF stdin.kind # "object"
       THEN /\ response' = ErrorResponse
            /\ exit_status' = 1
            /\ UNCHANGED <<base_prob, samples>>
       ELSE \E wins \in 0..num_simulations :
            /\ base_prob' = BaseProb(stdin.obj)
            /\ samples' = num_simulations
            /\ response' = SimResult(wins)
            /\ exit_status' = 0
    /\ pc' = "done"
    /\ calls' = calls + 1
    /\ UNCHANGED <<component, stdin, MOCK_HISTORY, numSimulations>>

Next == FeatureStep \/ RagStep \/ RetrieveStep \/ SimStep

Spec == Init /\ [][Next]_vars

\* the simulator alone, over the larger set of feature objects
InitSimOnly == InitCommon /\ InitSim(SimDocs)

SpecSim == InitSimOnly /\ [][SimStep]_vars

----------------------------------------------------------------------------
(* The core used as a library: several calls in one process, sharing MOCK_HISTORY *)

CoreQueries == NamedQueries \cup SeqsUpTo({"a", " "}, MaxLenCore)

CoreTopKs == {-1, 2, DefaultTopK}

CoreFeatureDocs ==
    {ObjectDoc({"matches"}, [matches |-> m]) : m \in SeqsUpTo(PoolRecords, MaxLenCore)}

CoreRagDocs ==
    {ObjectDoc({"query", "top_k"}, [query |-> q, top_k |-> k]) :
        q \in CoreQueries, k \in CoreTopKs}

CoreRetrieveArgs ==
    [query : CoreQueries, history : {MockHistoryInit, OtherCorpus}, top_k : CoreTopKs]

InitCore ==
    /\ InitCommon
    /\ numSimulations = num_simulations
    /\ \/ component = "feature" /\ stdin \in CoreFeatureDocs
       \/ component = "rag" /\ stdin \in CoreRagDocs
       \/ component = "retrieve" /\ stdin \in CoreRetrieveArgs

\* the caller makes a further call in the same process; module state is kept
NextCall ==
    /\ pc = "done" /\ calls < MaxCalls
    /\ pc' = "start"
    /\ response' = NoOutput
    /\ exit_status' = 0
    /\ \/ component' = "feature" /\ stdin' \in CoreFeatureDocs
       \/ component' = "rag" /\ stdin' \in CoreRagDocs
       \/ component' = "retrieve" /\ stdin' \in CoreRetrieveArgs
    /\ UNCHANGED <<MOCK_HISTORY, base_prob, samples, numSimulations, calls>>

NextCore == FeatureStep \/ RagStep \/ RetrieveStep \/ NextCall

SpecCore == InitCore /\ [][NextCore]_vars

----------------------------------------------------------------------------
(* Properties: MatchSimulator *)

SimDone == pc = "done" /\ component = "sim" /\ ~IsError(response)

AllOnes ==
    /\ stdin.kind = "object"
    /\ DOMAIN stdin.obj = FeatureKeys
    /\ \A k \in FeatureKeys : stdin.obj[k] = 100

\* C1 as stated: with winRate = tempoScore = comebackProbability = 1.0 the base
\* probability used for sampling is exactly the upper clamp bound 0.9.
C1_BaseClampedAtUpperBound == SimDone /\ AllOnes => base_prob = 900

\* C1 amended: with winRate = tempoScore = comebackProbability = 1.0 the base
\* probability used for sampling is 0.5 + 0.2 + 0.05 + 0.05 = 0.8, strictly inside
\* the clamp range [0.1, 0.9].
C1_BaseAllOnesIsPoint8 ==
    SimDone /\ AllOnes => base_prob = 800 /\ 100 < base_prob /\ base_prob < 900

C1_Witness == SimDone /\ AllOnes /\ samples = num_simulations

NeutralOrMissing == \A k \in DOMAIN stdin.obj : k \in FeatureKeys => stdin.obj[k] = DefaultFeature

\* C9: simulate draws exactly the numSimulations samples the caller selects and returns
\* (samples below base) / numSimulations, which lies in [0,1]; base lies in
\* [0.1, 0.9], and is exactly 0.5 when every field is 0.5 or missing.
C9_SimulateContract ==
    SimDone =>
        /\ samples = numSimulations
        /\ response.predicted_win_probability \in 0..1000
        /\ base_prob \in 100..900
        /\ (NeutralOrMissing => base_prob = 500)

----------------------------------------------------------------------------
(* Properties: SimilarityRetriever *)

\* a retrieval has returned normally (directly, or through main)
RetrieveDone ==
    pc = "done" /\ (component = "retrieve" \/ (component = "rag" /\ ~IsError(response)))

CallQuery == IF component = "retrieve" THEN stdin.query ELSE Get(stdin.obj, "query", EmptyStr)

CallTopK == IF component = "retrieve" THEN stdin.top_k ELSE Get(stdin.obj, "top_k", DefaultTopK)

CallCorpus == IF component = "retrieve" THEN stdin.history ELSE MOCK_HISTORY

CallResults == IF component = "retrieve" THEN response ELSE response.similar_matches

\* C2 as stated: for every integer topK, negative ones included, retrieve returns
\* exactly min(topK, |corpus|) results.
C2_LengthIsMinTopKCorpus ==
    RetrieveDone => Len(CallResults) = Min(CallTopK, Len(CallCorpus))

\* C2 amended: retrieve raises no error and returns min(topK, |corpus|) results when
\* topK >= 0, and max(0, |corpus| + topK) results when topK < 0 (the slice [:topK]
\* drops the last -topK candidates).
C2_LengthFollowsSlice ==
    RetrieveDone =>
        Len(CallResults) =
            IF CallTopK >= 0 THEN Min(CallTopK, Len(CallCorpus))
            ELSE Max(0, Len(CallCorpus) + CallTopK)

C2_Witness == RetrieveDone /\ CallTopK < 0 /\ Len(CallResults) > 0

\* the exact similarity of every corpus record to the query
SimsOf(query, corpus) ==
    LET query_vec == text_to_vector(query)
    IN  [j \in 1..Len(corpus) |->
            cosine_similarity(query_vec, text_to_vector(MatchText(corpus[j])))]

\* record j comes before record k: greater similarity, or equal similarity and earlier
Before(sims, j, k) ==
    \/ ~SimGeq(sims[k], sims[j])
    \/ SimEq(sims[j], sims[k]) /\ j < k

\* the corpus position of the record that belongs at each result position
RankOrder(sims) ==
    [i \in 1..Len(sims) |->
        CHOOSE j \in 1..Len(sims) :
            Cardinality({k \in 1..Len(sims) : Before(sims, k, j)}) = i - 1]

IsNamedExample ==
    /\ CallQuery = <<"C", "9", " ", "w", "i", "n", " ", "T", "1">>
    /\ CallTopK = 2
    /\ CallCorpus = MockHistoryInit

\* C8: the results are ordered by similarity descending with ties in corpus order;
\* result i carries rank i; the rounded similarities lie in [0,1] and never increase;
\* each result is its corpus record with similarity and rank added.  For "C9 win T1",
\* topK = 2 on the built-in corpus: 2 results, ranks 1 and 2, top teamName "C9".
C8_RankedBySimilarityStable ==
    RetrieveDone =>
        \A sims \in {SimsOf(CallQuery, CallCorpus)} : \A order \in {RankOrder(sims)} :
            /\ \A i \in 1..Len(CallResults) :
                LET r == CallResults[i]
                    m == CallCorpus[order[i]]
                IN  /\ r.rank = i
                    /\ r.similarity \in 0..1000
                    /\ r.similarity = Round3(sims[order[i]])
                    /\ i > 1 => CallResults[i - 1].similarity >= r.similarity
                    /\ DOMAIN r = DOMAIN m \cup {"similarity", "rank"}
                    /\ \A k \in DOMAIN m : r[k] = m[k]
            /\ IsNamedExample =>
                /\ Len(CallResults) = 2
                /\ CallResults[1].rank = 1 /\ CallResults[2].rank = 2
                /\ CallResults[1].teamName = <<"C", "9">>

\* a retrieval whose order differs from corpus order and which also holds a tie
C8_Witness ==
    /\ RetrieveDone
    /\ Len(CallResults) >= 3
    /\ \E sims \in {SimsOf(CallQuery, CallCorpus)} : \E order \in {RankOrder(sims)} :
           /\ \E i \in 1..Len(CallResults) : order[i] # i
           /\ \E i \in 2..Len(CallResults) :
                /\ SimEq(sims[order[i - 1]], sims[order[i]])
                /\ CallResults[i].similarity > 0

----------------------------------------------------------------------------
(* Properties: FeatureExtractor *)

FeatureDone == pc = "done" /\ component = "feature" /\ ~IsError(response)

Matches == Get(stdin.obj, "matches", <<>>)

FeatureFields == {"win_rate_trend", "tempo_score", "comeback_probability", "win_rate"}

\* C3: whatever malformed records the match list holds, extract raises nothing and
\* returns a complete FeatureVector with all four fields.
C3_MalformedRecordsNeverAbort ==
    pc = "done" /\ component = "feature" /\ stdin.kind = "object" =>
        ~IsError(response) /\ DOMAIN response = FeatureFields

DashSep == <<"-">>

\* two integers separated by sep: <<ok, A, B>>
TwoInts(s, sep) ==
    LET parts == SplitSep(s, sep)
    IN  IF Len(parts) = 2 /\ ParseInt(parts[1]).ok /\ ParseInt(parts[2]).ok
        THEN <<TRUE, ParseInt(parts[1]).v, ParseInt(parts[2]).v>>
        ELSE <<FALSE, 0, 0>>

\* a score as the data model reads it: "A - B" or "A-B"
ScoreOfEitherFormat(match) ==
    LET score == Get(match.d, "score", DefaultScore)
    IN  IF ~match.isdict \/ ~score.isstr THEN <<FALSE, 0, 0>>
        ELSE IF TwoInts(score.s, ScoreSep)[1] THEN TwoInts(score.s, ScoreSep)
        ELSE TwoInts(score.s, DashSep)

\* mean of 1 - (A+B)/30 over the matches with a score of either format and A+B # 0,
\* clipped to [0,1]; 0.5 when there is none
TempoOverBothFormats(matches) ==
    LET valid == {i \in 1..Len(matches) :
                    /\ ScoreOfEitherFormat(matches[i])[1]
                    /\ ScoreOfEitherFormat(matches[i])[2] + ScoreOfEitherFormat(matches[i])[3] # 0}
        tempo == [i \in 1..Len(matches) |->
                    IF i \in valid
                    THEN 30 - (ScoreOfEitherFormat(matches[i])[2] + ScoreOfEitherFormat(matches[i])[3])
                    ELSE 0]
    IN  IF valid = {} THEN Rat(1, 2)
        ELSE Clip(Rat(SumSeq(tempo), 30 * Cardinality(valid)), 0, 1)

\* no score of the list has a negative round count
RoundCountsNonNegative(matches) ==
    \A i \in 1..Len(matches) :
        ScoreOfEitherFormat(matches[i])[2] >= 0 /\ ScoreOfEitherFormat(matches[i])[3] >= 0

\* C4: tempoScore is the clipped mean of 1 - (A+B)/30 over the matches whose score is
\* "A - B" or "A-B" with A+B # 0 ("13-5" counts like "13 - 5"), and 0.5 when there is
\* none.  Stated for the lists without negative round counts.
C4_TempoCountsBothScoreFormats ==
    FeatureDone /\ RoundCountsNonNegative(Matches) =>
        RatEq(response.tempo_score, TempoOverBothFormats(Matches))

Abs(x) == IF x < 0 THEN 0 - x ELSE x

\* comebacks / |qualifying set| with the margin taken as the absolute difference
ComebackByMargin(matches) ==
    LET margin(i) == Abs(ParseScore(matches[i]).a - ParseScore(matches[i]).b)
        result(i) == Get(matches[i].d, "result", <<>>)
        wins == {i \in 1..Len(matches) :
                    ParseScore(matches[i]).ok /\ result(i) = WIN /\ margin(i) >= 4}
        losses == {i \in 1..Len(matches) :
                    ParseScore(matches[i]).ok /\ result(i) = LOSS /\ margin(i) <= 2}
    IN  IF wins \cup losses = {} THEN Rat(1, 2)
        ELSE Rat(Cardinality(wins), Cardinality(wins) + Cardinality(losses))

\* C5: comebackProbability is comebacks / |qualifying set|, a match qualifying iff it is
\* a loss with absolute margin <= 2 or a win with absolute margin >= 4 (a lopsided loss
\* such as "13 - 5" does not qualify); 0.5 when nothing qualifies.  Stated for the
\* lists without negative round counts.
C5_ComebackUsesAbsoluteMargin ==
    FeatureDone /\ RoundCountsNonNegative(Matches) =>
        RatEq(response.comeback_probability, ComebackByMargin(Matches))

InRange(x, lo, hi) == x[2] > 0 /\ lo * x[2] <= x[1] /\ x[1] <= hi * x[2]

\* C7: every value extract returns lies in its range: tempoScore in [0,1], winRateTrend
\* in [-1,1], comebackProbability in [0,1].
C7_FeatureValuesInRange ==
    FeatureDone =>
        /\ InRange(response.tempo_score, 0, 1)
        /\ InRange(response.win_rate_trend, -1, 1)
        /\ InRange(response.comeback_probability, 0, 1)

HugeScore == Str(<<"1", "0", "0", " ", "-", " ", "1", "0", "0">>)

\* a list with a 200-round score, whose tempo value -170/30 had to be clipped
C7_Witness ==
    /\ FeatureDone
    /\ Len(Matches) >= 2
    /\ \A i \in 1..Len(Matches) : Get(Matches[i].d, "score", DefaultScore) = HugeScore
    /\ response.tempo_score = Rat(0, 1)

----------------------------------------------------------------------------
(* Properties: the failure envelope of the three main() functions *)

MainDone == pc = "done" /\ component \in {"feature", "rag", "sim"}

MissingRequiredKey ==
    /\ stdin.kind = "object"
    /\ \/ component = "feature" /\ "matches" \notin DOMAIN stdin.obj
       \/ component = "rag" /\ "query" \notin DOMAIN stdin.obj

\* C6 as stated: unparsable JSON, a top-level value of the wrong shape, or a missing
\* required top-level key ("matches", "query") is answered by {"error": ...} and a
\* non-zero status, never by a success result.
C6_StructuralErrorsAbort ==
    MainDone /\ (stdin.kind # "object" \/ MissingRequiredKey) =>
        IsError(response) /\ exit_status = 1

\* C6 amended: unparsable JSON or a top-level value that is not an object is answered by
\* {"error": ...} and status 1; a missing "matches" or "query" key is not an error: the
\* call succeeds with status 0, as for the empty match list (trend 0.0, the rest 0.5)
\* or the empty query (every similarity 0).
C6_NonObjectAbortsMissingKeyDefaults ==
    MainDone =>
        /\ stdin.kind # "object" => IsError(response) /\ exit_status = 1
        /\ MissingRequiredKey /\ component = "feature" =>
            /\ exit_status = 0
            /\ response = [win_rate_trend |-> Rat(0, 1), tempo_score |-> Rat(1, 2),
                           comeback_probability |-> Rat(1, 2), win_rate |-> Rat(1, 2)]
        /\ MissingRequiredKey /\ component = "rag" =>
            /\ exit_status = 0
            /\ ~IsError(response)
            /\ \A i \in 1..Len(response.similar_matches) :
                response.similar_matches[i].similarity = 0

C6_Witness == MainDone /\ MissingRequiredKey /\ component = "feature" /\ exit_status = 0

----------------------------------------------------------------------------
(* Properties: no state across calls *)

\* C10: a call leaves its argument and MOCK_HISTORY as they were, and returns what it
\* returns as the first call of a process, whatever calls came before.
C10_NoCrossCallState ==
    [][pc = "start" =>
        /\ MOCK_HISTORY' = MockHistoryInit
        /\ stdin' = stdin
        /\ component = "feature" => response' = feature_main(stdin)
        /\ component = "rag" => response' = rag_main(stdin, MockHistoryInit).response
        /\ component = "retrieve" =>
            response' = find_similar_matches(stdin.query, stdin.history, stdin.top_k).results
      ]_vars

\* a retrieval over the built-in corpus that returned records, after two earlier calls
C10_Witness ==
    /\ pc = "done" /\ calls = 3 /\ component = "rag"
    /\ Len(response.similar_matches) > 0

====
